---- MODULE Spec2Model ----
(***************************************************************************)
(* Model of vantage6.common.context.AppContext: the application context    *)
(* that resolves the instance folders, loads a multi-environment           *)
(* configuration file, activates one environment and sets up logging.      *)
(*                                                                         *)
(* Python values are modelled as follows.                                   *)
(*   - a pathlib.Path is a sequence of components, `/` is Append;           *)
(*   - a str is a TLA+ string, + and f-strings are \o;                      *)
(*   - a dict is a function whose DOMAIN is the set of keys;                *)
(*   - an object is a record of its attributes; an attribute that was      *)
(*     never assigned holds the Unset value of its type and reading it     *)
(*     raises AttributeError;                                               *)
(*   - an exception is a record [type, msg], msg being the tuple of the    *)
(*     message's pieces.                                                    *)
(***************************************************************************)
EXTENDS Integers, Sequences, FiniteSets, TLC

VARIABLES
    disk,             \* the configuration files on disk: path -> content
    LOGGING_ENABLED,  \* AppContext.LOGGING_ENABLED, the process-wide flag
    instances,        \* Singleton._instances[AppContext]: 0, or an index of objs
    objs,             \* the AppContext objects handed to callers
    root,             \* the root logger: [level, handlers, captureWarnings]
    dirs,             \* directories made by os.makedirs
    ret               \* the last call: what was called, and how it ended

vars == <<disk, LOGGING_ENABLED, instances, objs, root, dirs, ret>>

-----------------------------------------------------------------------------
(* Bounds of the model *)

MaxObjs == 2
MaxHandlers == 3

-----------------------------------------------------------------------------
(* Globals and the inputs the callers draw from *)

APPNAME == "vantage6"

InstanceTypes == {"node"}
InstanceNames == {"n1", "n2"}
Stems == InstanceNames \cup {"n3"}
EnvNames == {"test", "prod", "dev"}
RunIds == {"42"}

-----------------------------------------------------------------------------
(* Values *)

UnsetStr == "<unset>"
UnsetPath == <<"<unset>">>
UnsetObj == [unset |-> TRUE]
None == [none |-> TRUE]

NoExc == [type |-> "none", msg |-> <<>>]
Exc(type, msg) == [type |-> type, msg |-> msg]
Raised(r) == r.exc.type # "none"

\* object.__new__(cls): an object with no attribute assigned
NewObject ==
    [name |-> UnsetStr, scope |-> UnsetStr,
     log_dir |-> UnsetPath, data_dir |-> UnsetPath, config_dir |-> UnsetPath,
     config_file |-> UnsetPath, config_manager |-> UnsetObj,
     environment |-> UnsetStr, config |-> UnsetObj, log |-> UnsetObj]

-----------------------------------------------------------------------------
(* pathlib *)

Parent(path) == SubSeq(path, 1, Len(path) - 1)
FileName(path) == path[Len(path)]
IsYaml(fname) == \E s \in Stems : fname = s \o ".yaml"
\* Path(p).stem: the final component without its suffix
Stem(path) ==
    IF IsYaml(FileName(path))
    THEN CHOOSE s \in Stems : FileName(path) = s \o ".yaml"
    ELSE FileName(path)

-----------------------------------------------------------------------------
(* File contents *)

Absent == [absent |-> TRUE]
Corrupt == [corrupt |-> TRUE]
Document(envs) == [envs |-> envs]

DocTwo == Document(
    [test |-> [logging |-> [level |-> "debug", use_console |-> TRUE,
                            file |-> "node.log"]],
     prod |-> [logging |-> [level |-> "info", use_console |-> FALSE]]])
DocNoLog == Document(
    [test |-> [logging |-> [level |-> "info", use_console |-> TRUE]],
     dev  |-> [databases |-> "default"]])
DocEmpty == Document([e \in {} |-> UnsetObj])

UserN1 == <<"user_config_dir", "node", "n1.yaml">>
UserN2 == <<"user_config_dir", "node", "n2.yaml">>
UserTxt == <<"user_config_dir", "node", "notes.txt">>
SiteN1 == <<"site_config_dir", "node", "n1.yaml">>
SiteN2 == <<"site_config_dir", "node", "n2.yaml">>
ExtN3 == <<"opt", "n3.yaml">>
AllPaths == {UserN1, UserN2, UserTxt, SiteN1, SiteN2, ExtN3}
ExternalPaths == {ExtN3, UserN2, SiteN2}

DiskA == (UserN1 :> DocTwo) @@ (UserN2 :> Absent) @@ (UserTxt :> Corrupt)
         @@ (SiteN1 :> DocNoLog) @@ (SiteN2 :> Corrupt) @@ (ExtN3 :> DocTwo)
DiskB == (UserN1 :> DocEmpty) @@ (UserN2 :> DocNoLog) @@ (UserTxt :> Absent)
         @@ (SiteN1 :> Absent) @@ (SiteN2 :> Absent) @@ (ExtN3 :> Corrupt)
Disks == {DiskA, DiskB}

Exists(d, path) == path \in DOMAIN d /\ d[path] # Absent
Glob(d, dir) == {p \in DOMAIN d : Parent(p) = dir /\ Exists(d, p) /\ IsYaml(FileName(p))}

-----------------------------------------------------------------------------
(* ConfigurationManager, the collaborator that owns the parsed document:   *)
(* from_file, available_environments, get, is_empty and the attribute      *)
(* lookup config_exists makes on it.                                        *)

\* from_file(path): parsing a corrupt file raises; the manager is named
\* after the file
from_file(d, path) ==
    IF d[path] = Corrupt
    THEN [value |-> UnsetObj, exc |-> Exc("Exception", <<path>>)]
    ELSE [value |-> [name |-> Stem(path), envs |-> d[path].envs], exc |-> NoExc]

available_environments(cm) == DOMAIN cm.envs
get(cm, env) == cm.envs[env]
is_empty(cm) == DOMAIN cm.envs = {}

\* bool(getattr(config_manager, environment)): whether the manager holds
\* settings under that name
getattr_environment(cm, env) ==
    [value |-> env \in available_environments(cm), exc |-> NoExc]

-----------------------------------------------------------------------------
(* AppContext *)

instance_folders(instance_type, instance_name, system_folders) ==
    IF system_folders
    THEN [log    |-> <<"site_data_dir", instance_type>>,
          data   |-> <<"site_data_dir", instance_type, instance_name>>,
          config |-> <<"site_config_dir", instance_type>>]
    ELSE [log    |-> <<"user_log_dir", instance_type>>,
          data   |-> <<"user_data_dir", instance_type, instance_name>>,
          config |-> <<"user_config_dir", instance_type>>]

set_folders(self, instance_type, instance_name, system_folders) ==
    LET folders == instance_folders(instance_type, instance_name, system_folders)
    IN  [self EXCEPT !.log_dir = folders.log,
                     !.data_dir = folders.data,
                     !.config_dir = folders.config]

\* a config_file setter that does not require the path to exist: a file
\* that is absent loads as a manager without environments
config_file_setter_noassert(self, path, d) ==
    LET stored == [self EXCEPT !.config_file = path]
        loaded == IF Exists(d, path)
                  THEN from_file(d, path)
                  ELSE [value |-> [name |-> Stem(path), envs |-> DocEmpty.envs],
                        exc |-> NoExc]
    IN  IF Raised(loaded)
        THEN [self |-> stored, exc |-> loaded.exc]
        ELSE [self |-> [stored EXCEPT !.config_manager = loaded.value],
              exc |-> NoExc]

\* the config_file setter: the path must exist; stores it and loads the
\* configuration manager from it
config_file_setter(self, path, d) ==
    IF ~Exists(d, path)
    THEN [self |-> self,
          exc |-> Exc("AssertionError", <<"config ", path, " not found">>)]
    ELSE LET stored == [self EXCEPT !.config_file = path]
             loaded == from_file(d, path)
         IN  IF Raised(loaded)
             THEN [self |-> stored, exc |-> loaded.exc]
             ELSE [self |-> [stored EXCEPT !.config_manager = loaded.value],
                   exc |-> NoExc]

\* the log_file property
log_file(self) ==
    IF self.config_manager = UnsetObj
    THEN [value |-> UnsetPath, exc |-> Exc("AttributeError", <<"config_manager">>)]
    ELSE IF self.config = UnsetObj
    THEN [value |-> UnsetPath, exc |-> Exc("AttributeError", <<"config">>)]
    ELSE IF "logging" \in DOMAIN self.config
            /\ "file" \in DOMAIN self.config["logging"]
    THEN IF self.log_dir = UnsetPath
         THEN [value |-> UnsetPath, exc |-> Exc("AttributeError", <<"log_dir">>)]
         ELSE [value |-> Append(self.log_dir, self.config["logging"]["file"]),
               exc |-> NoExc]
    ELSE IF self.environment = UnsetStr
    THEN [value |-> UnsetPath, exc |-> Exc("AttributeError", <<"environment">>)]
    ELSE IF self.scope = UnsetStr
    THEN [value |-> UnsetPath, exc |-> Exc("AttributeError", <<"scope">>)]
    ELSE IF self.log_dir = UnsetPath
    THEN [value |-> UnsetPath, exc |-> Exc("AttributeError", <<"log_dir">>)]
    ELSE [value |-> Append(self.log_dir,
                           self.config_manager.name \o "-" \o self.environment
                           \o "-" \o self.scope \o " + .log"),
          exc |-> NoExc]

\* str.upper() of a level name, and the level of that name in logging
Upper(s) == CASE s = "debug" -> "DEBUG" [] s = "info" -> "INFO" [] OTHER -> s
LoggingLevel(s) == CASE s = "DEBUG" -> 10 [] s = "INFO" -> 20 [] OTHER -> 30

\* logger.addHandler(h), h a handler object made by the caller just before
addHandler(handlers, h) == Append(handlers, h)

\* setup_logging: reads the logging section of the active configuration,
\* makes the directory of the log file, sets the root logger's level,
\* attaches a rotating file handler and (use_console) a console handler,
\* captures the warnings and stores the module's logger in self.log. The
\* banner it then logs goes through the handlers and leaves nothing in the
\* state kept here.
\* `log` is [root, dirs], the process-wide state it works on.
setup_logging(self, log) ==
    IF "logging" \notin DOMAIN self.config
    THEN [self |-> self, log |-> log, exc |-> Exc("KeyError", <<"logging">>)]
    ELSE LET log_config == self.config["logging"]
             level == LoggingLevel(Upper(log_config["level"]))
             file == log_file(self)
         IN  IF Raised(file)
             THEN [self |-> self, log |-> log, exc |-> file.exc]
             ELSE LET rfh == [kind |-> "RotatingFileHandler",
                              stream |-> file.value, level |-> level]
                      ch == [kind |-> "ColorStreamHandler",
                             stream |-> <<"sys.stdout">>, level |-> level]
                      h1 == addHandler(log.root.handlers, rfh)
                      h2 == IF log_config["use_console"] THEN addHandler(h1, ch) ELSE h1
                  IN  [self |-> [self EXCEPT !.log = [logger |-> "context"]],
                       log |-> [root |-> [level |-> level, handlers |-> h2,
                                          captureWarnings |-> TRUE],
                                dirs |-> log.dirs \cup {Parent(file.value)}],
                       exc |-> NoExc]

\* an environment setter that does not check the name against
\* available_environments
environment_setter_nocheck(self, env, log, enabled) ==
    IF self.config_manager = UnsetObj
    THEN [self |-> self, log |-> log,
          exc |-> Exc("AttributeError", <<"config_manager">>)]
    ELSE LET activated ==
                 [self EXCEPT !.environment = env,
                              !.config = IF env \in available_environments(self.config_manager)
                                         THEN get(self.config_manager, env)
                                         ELSE [missing |-> env]]
         IN  IF enabled
             THEN setup_logging(activated, log)
             ELSE [self |-> activated, log |-> log, exc |-> NoExc]

\* an environment setter that derives config only the first time
environment_setter_keepconfig(self, env, log, enabled) ==
    IF self.config_manager = UnsetObj
    THEN [self |-> self, log |-> log,
          exc |-> Exc("AttributeError", <<"config_manager">>)]
    ELSE IF env \notin available_environments(self.config_manager)
    THEN [self |-> self, log |-> log,
          exc |-> Exc("AssertionError",
                      <<"Requested environment ", env,
                        " is not found in the configuration">>)]
    ELSE LET activated ==
                 [self EXCEPT !.environment = env,
                              !.config = IF self.config = UnsetObj
                                         THEN get(self.config_manager, env)
                                         ELSE self.config]
         IN  IF enabled
             THEN setup_logging(activated, log)
             ELSE [self |-> activated, log |-> log, exc |-> NoExc]

\* an environment setter that stores the name before it checks it
environment_setter_writefirst(self, env, log, enabled) ==
    IF self.config_manager = UnsetObj
    THEN [self |-> self, log |-> log,
          exc |-> Exc("AttributeError", <<"config_manager">>)]
    ELSE IF env \notin available_environments(self.config_manager)
    THEN [self |-> [self EXCEPT !.environment = env], log |-> log,
          exc |-> Exc("AssertionError",
                      <<"Requested environment ", env,
                        " is not found in the configuration">>)]
    ELSE LET activated == [self EXCEPT !.environment = env,
                                       !.config = get(self.config_manager, env)]
         IN  IF enabled
             THEN setup_logging(activated, log)
             ELSE [self |-> activated, log |-> log, exc |-> NoExc]

\* the environment setter
environment_setter(self, env, log, enabled) ==
    IF self.config_manager = UnsetObj
    THEN [self |-> self, log |-> log,
          exc |-> Exc("AttributeError", <<"config_manager">>)]
    ELSE IF env \notin available_environments(self.config_manager)
    THEN [self |-> self, log |-> log,
          exc |-> Exc("AssertionError",
                      <<"Requested environment ", env,
                        " is not found in the configuration">>)]
    ELSE LET activated == [self EXCEPT !.environment = env,
                                       !.config = get(self.config_manager, env)]
         IN  IF enabled
             THEN setup_logging(activated, log)
             ELSE [self |-> activated, log |-> log, exc |-> NoExc]

\* AppContext.__init__ on a new object
init(self, instance_type, instance_name, system_folders, environment, d, log, enabled) ==
    LET named == [self EXCEPT !.name = instance_name,
                              !.scope = IF system_folders THEN "system" ELSE "user"]
        placed == set_folders(named, instance_type, instance_name, system_folders)
        filed == config_file_setter(
                     placed, Append(placed.config_dir, instance_name \o ".yaml"), d)
    IN  IF Raised(filed)
        THEN [self |-> filed.self, log |-> log, exc |-> filed.exc]
        ELSE LET active == environment_setter(filed.self, environment, log, enabled)
             IN  IF Raised(active)
                 THEN active
                 ELSE [active EXCEPT !.self.log = None]

\* AppContext.from_external_config_file on the object cls.__new__(cls) makes
from_external_config_file(self, path, instance_type, environment, system_folders, d, log, enabled) ==
    LET instance_name == Stem(path)
        placed == set_folders(self, instance_type, instance_name, system_folders)
        moved == [placed EXCEPT !.config_dir = Parent(path)]
        filed == config_file_setter(moved, path, d)
    IN  IF Raised(filed)
        THEN [self |-> filed.self, log |-> log, exc |-> filed.exc]
        ELSE environment_setter(filed.self, environment, log, enabled)

\* AppContext.config_exists
config_exists(instance_type, instance_name, environment, system_folders, d) ==
    LET config_dir == IF system_folders THEN <<"site_config_dir">>
                                        ELSE <<"user_config_dir">>
        config_file == Append(Append(config_dir, instance_type),
                              instance_name \o ".yaml")
    IN  IF ~Exists(d, config_file)
        THEN [value |-> FALSE, exc |-> NoExc]
        ELSE LET loaded == from_file(d, config_file)
             IN  IF Raised(loaded)
                 THEN [value |-> FALSE, exc |-> loaded.exc]
                 ELSE getattr_environment(loaded.value, environment)

\* the loop of available_configurations over the files the glob yields
RECURSIVE scan_configurations(_, _, _)
scan_configurations(files, d, acc) ==
    IF files = <<>>
    THEN acc
    ELSE LET file_ == Head(files)
             loaded == from_file(d, file_)
             next == IF Raised(loaded)
                     THEN [acc EXCEPT !.failed = Append(@, file_)]
                     ELSE IF is_empty(loaded.value)
                     THEN [acc EXCEPT !.failed = Append(@, file_)]
                     ELSE [acc EXCEPT !.configs = Append(@, loaded.value)]
         IN  scan_configurations(Tail(files), d, next)

\* a scan that leaves out the files whose manager is empty
RECURSIVE scan_configurations_skipempty(_, _, _)
scan_configurations_skipempty(files, d, acc) ==
    IF files = <<>>
    THEN acc
    ELSE LET file_ == Head(files)
             loaded == from_file(d, file_)
             next == IF Raised(loaded)
                     THEN [acc EXCEPT !.failed = Append(@, file_)]
                     ELSE IF is_empty(loaded.value)
                     THEN acc
                     ELSE [acc EXCEPT !.configs = Append(@, loaded.value)]
         IN  scan_configurations_skipempty(Tail(files), d, next)

available_configurations_skipempty(files, d) ==
    scan_configurations_skipempty(files, d, [configs |-> <<>>, failed |-> <<>>])

\* AppContext.available_configurations, `files` being the glob's result in
\* the order the directory yields it
available_configurations(files, d) ==
    scan_configurations(files, d, [configs |-> <<>>, failed |-> <<>>])

docker_temporary_volume_name(self, run_id) ==
    IF self.name = UnsetStr
    THEN [value |-> "", exc |-> Exc("AttributeError", <<"name">>)]
    ELSE IF self.scope = UnsetStr
    THEN [value |-> "", exc |-> Exc("AttributeError", <<"scope">>)]
    ELSE [value |-> APPNAME \o "-" \o self.name \o "-" \o self.scope
                    \o "-" \o run_id \o "-tmpvol",
          exc |-> NoExc]

docker_container_name(self) ==
    IF self.name = UnsetStr
    THEN [value |-> "", exc |-> Exc("AttributeError", <<"name">>)]
    ELSE IF self.scope = UnsetStr
    THEN [value |-> "", exc |-> Exc("AttributeError", <<"scope">>)]
    ELSE [value |-> APPNAME \o "-" \o self.name \o "-" \o self.scope,
          exc |-> NoExc]

docker_network_name(self) ==
    IF self.name = UnsetStr
    THEN [value |-> "", exc |-> Exc("AttributeError", <<"name">>)]
    ELSE IF self.scope = UnsetStr
    THEN [value |-> "", exc |-> Exc("AttributeError", <<"scope">>)]
    ELSE [value |-> APPNAME \o "-" \o self.name \o "-" \o self.scope,
          exc |-> NoExc]

config_file_name(self) ==
    IF self.config_file = UnsetPath
    THEN [value |-> "", exc |-> Exc("AttributeError", <<"config_file">>)]
    ELSE [value |-> Stem(self.config_file), exc |-> NoExc]

-----------------------------------------------------------------------------
(* The process: calls made on the class and on the contexts it handed out *)

\* the sequences that list the members of a set once each
Orders(S) ==
    {f \in [1..Cardinality(S) -> S] : \A x \in S : \E i \in DOMAIN f : f[i] = x}

Log == [root |-> root, dirs |-> dirs]

\* what a call leaves in ret: the call and its arguments, whether a new
\* object was initialised, the context it was made on and the environment
\* that context had, the object as the call left it, and the outcome
Call(op, args, fresh, target, was, self, value, exc) ==
    [op |-> op, args |-> args, fresh |-> fresh, target |-> target,
     was |-> was, self |-> self, value |-> value, exc |-> exc]

InitProcess ==
    /\ LOGGING_ENABLED \in BOOLEAN
    /\ instances = 0
    /\ objs = <<>>
    /\ root = [level |-> 30, handlers |-> <<>>, captureWarnings |-> FALSE]
    /\ dirs = {}
    /\ ret = Call("start", <<>>, FALSE, 0, UnsetStr, NewObject, 0, NoExc)

Init ==
    /\ disk \in Disks
    /\ InitProcess

\* Singleton.__call__: the class has an instance already
HasInstance(registry) == registry # 0

\* AppContext(instance_type, instance_name, system_folders, environment):
\* Singleton.__call__ returns the registered instance, or makes an object,
\* runs __init__ on it and registers it when __init__ returns
AppContextCall(instance_type, instance_name, system_folders, environment) ==
    LET args == [instance_type |-> instance_type, instance_name |-> instance_name,
                 system_folders |-> system_folders, environment |-> environment]
    IN  IF HasInstance(instances)
        THEN /\ ret' = Call("AppContext", args, FALSE, instances,
                            objs[instances].environment, objs[instances],
                            instances, NoExc)
             /\ UNCHANGED <<disk, LOGGING_ENABLED, instances, objs, root, dirs>>
        ELSE LET r == init(NewObject, instance_type, instance_name, system_folders,
                           environment, disk, Log, LOGGING_ENABLED)
             IN  /\ Len(r.log.root.handlers) <= MaxHandlers
                 /\ root' = r.log.root
                 /\ dirs' = r.log.dirs
                 /\ IF Raised(r)
                    THEN /\ UNCHANGED <<instances, objs>>
                         /\ ret' = Call("AppContext", args, TRUE, 0,
                                        UnsetStr, r.self, 0, r.exc)
                    ELSE /\ Len(objs) < MaxObjs
                         /\ objs' = Append(objs, r.self)
                         /\ instances' = Len(objs) + 1
                         /\ ret' = Call("AppContext", args, TRUE, Len(objs) + 1,
                                        UnsetStr, r.self, Len(objs) + 1, NoExc)
                 /\ UNCHANGED <<disk, LOGGING_ENABLED>>

\* AppContext.from_external_config_file(path, instance_type, environment,
\* system_folders)
FromExternalConfigFile(path, instance_type, environment, system_folders) ==
    LET args == [path |-> path, instance_type |-> instance_type,
                 environment |-> environment, system_folders |-> system_folders]
        r == from_external_config_file(NewObject, path, instance_type, environment,
                                       system_folders, disk, Log, LOGGING_ENABLED)
    IN  /\ Len(r.log.root.handlers) <= MaxHandlers
        /\ root' = r.log.root
        /\ dirs' = r.log.dirs
        /\ IF Raised(r)
           THEN /\ UNCHANGED objs
                /\ ret' = Call("from_external_config_file", args, TRUE, 0,
                               UnsetStr, r.self, 0, r.exc)
           ELSE /\ Len(objs) < MaxObjs
                /\ objs' = Append(objs, r.self)
                /\ ret' = Call("from_external_config_file", args, TRUE, Len(objs) + 1,
                               UnsetStr, r.self, Len(objs) + 1, NoExc)
        /\ UNCHANGED <<disk, LOGGING_ENABLED, instances>>

\* ctx.environment = env on a context a constructor returned
SetEnvironment(i, env) ==
    LET r == environment_setter(objs[i], env, Log, LOGGING_ENABLED)
    IN  /\ Len(r.log.root.handlers) <= MaxHandlers
        /\ objs' = [objs EXCEPT ![i] = r.self]
        /\ root' = r.log.root
        /\ dirs' = r.log.dirs
        /\ ret' = Call("environment", [environment |-> env], FALSE, i,
                       objs[i].environment, r.self, 0, r.exc)
        /\ UNCHANGED <<disk, LOGGING_ENABLED, instances>>

Helpers == {"docker_container_name", "docker_network_name",
            "docker_temporary_volume_name", "config_file_name", "log_file"}

\* reading one of the derived names of a context
ReadHelper(i, helper, run_id) ==
    LET r == CASE helper = "docker_container_name" -> docker_container_name(objs[i])
               [] helper = "docker_network_name" -> docker_network_name(objs[i])
               [] helper = "docker_temporary_volume_name" ->
                      docker_temporary_volume_name(objs[i], run_id)
               [] helper = "config_file_name" -> config_file_name(objs[i])
               [] helper = "log_file" ->
                      LET f == log_file(objs[i])
                      IN  [value |-> IF Raised(f) THEN "" ELSE FileName(f.value),
                           exc |-> f.exc]
    IN  /\ ret' = Call(helper, [run_id |-> run_id], FALSE, i,
                       objs[i].environment, NewObject, r.value, r.exc)
        /\ UNCHANGED <<disk, LOGGING_ENABLED, instances, objs, root, dirs>>

Next ==
    \/ \E t \in InstanceTypes, n \in InstanceNames, s \in BOOLEAN, e \in EnvNames :
           AppContextCall(t, n, s, e)
    \/ \E p \in ExternalPaths, t \in InstanceTypes, e \in EnvNames, s \in BOOLEAN :
           FromExternalConfigFile(p, t, e, s)
    \/ \E i \in DOMAIN objs, e \in EnvNames : SetEnvironment(i, e)
    \/ \E i \in DOMAIN objs, h \in Helpers, r \in RunIds : ReadHelper(i, h, r)

Spec == Init /\ [][Next]_vars

-----------------------------------------------------------------------------
(* Configuration discovery: the two class methods that only read the disk, *)
(* over every content of the configuration directories.                    *)

Contents == {Absent, Corrupt, DocTwo, DocNoLog, DocEmpty}
DiscoveryPaths == {UserN1, UserN2, SiteN1, SiteN2}

\* AppContext.config_exists(instance_type, instance_name, environment,
\* system_folders)
ConfigExists(instance_type, instance_name, environment, system_folders) ==
    LET args == [instance_type |-> instance_type, instance_name |-> instance_name,
                 environment |-> environment, system_folders |-> system_folders]
        r == config_exists(instance_type, instance_name, environment,
                           system_folders, disk)
    IN  /\ ret' = Call("config_exists", args, FALSE, 0, UnsetStr, NewObject,
                       r.value, r.exc)
        /\ UNCHANGED <<disk, LOGGING_ENABLED, instances, objs, root, dirs>>

\* AppContext.available_configurations(instance_type, system_folders)
AvailableConfigurations(instance_type, system_folders) ==
    LET args == [instance_type |-> instance_type, system_folders |-> system_folders]
        folders == instance_folders(instance_type, "", system_folders)
    IN  /\ \E config_files \in Orders(Glob(disk, folders.config)) :
               ret' = Call("available_configurations", args, FALSE, 0, UnsetStr,
                           NewObject, available_configurations(config_files, disk),
                           NoExc)
        /\ UNCHANGED <<disk, LOGGING_ENABLED, instances, objs, root, dirs>>

InitDiscovery ==
    /\ \E d \in [DiscoveryPaths -> Contents] : disk = d @@ (UserTxt :> Corrupt)
    /\ InitProcess

NextDiscovery ==
    \/ \E t \in InstanceTypes, n \in InstanceNames, e \in EnvNames, s \in BOOLEAN :
           ConfigExists(t, n, e, s)
    \/ \E t \in InstanceTypes, s \in BOOLEAN : AvailableConfigurations(t, s)

SpecDiscovery == InitDiscovery /\ [][NextDiscovery]_vars

-----------------------------------------------------------------------------
(* Properties *)

\* the two assertion messages of the setters
IsConfigNotFound(exc, path) ==
    /\ exc.type = "AssertionError"
    /\ exc.msg[1] = "config "
    /\ exc.msg[2] = path
    /\ exc.msg[3] = " not found"

IsEnvironmentNotFound(exc, env) ==
    /\ exc.type = "AssertionError"
    /\ exc.msg[1] = "Requested environment "
    /\ exc.msg[2] = env
    /\ exc.msg[3] = " is not found in the configuration"

\* the last call ran a constructor's body on a new object
Constructing == ret.op \in {"AppContext", "from_external_config_file"} /\ ret.fresh

\* the last call assigned `environment`: directly, or in a constructor
\* whose config_file assignment had loaded the manager
EnvironmentAssigned ==
    \/ ret.op = "environment"
    \/ Constructing /\ ret.self.config_manager # UnsetObj

\* the configuration file the last constructor call computed
ConstructedConfigFile ==
    IF ret.op = "AppContext"
    THEN Append(instance_folders(ret.args.instance_type, ret.args.instance_name,
                                 ret.args.system_folders).config,
                ret.args.instance_name \o ".yaml")
    ELSE ret.args.path

CountKind(kind) ==
    Cardinality({i \in DOMAIN root.handlers : root.handlers[i].kind = kind})

\* C1: an assignment of `environment` with a name that is not one of
\* config_manager.available_environments fails with the assertion error
\* whose message names the requested environment, and an assignment that
\* succeeds was given a name that is a member.
C1_EnvironmentMustBeAvailable ==
    EnvironmentAssigned =>
        LET env == ret.args.environment
            cm == ret.self.config_manager
        IN  /\ env \notin available_environments(cm)
                   => IsEnvironmentNotFound(ret.exc, env)
            /\ ~Raised(ret) => env \in available_environments(cm)

\* C1 witness: a construction on an existing file was refused because the
\* requested environment is not in the file
C1_Witness ==
    /\ ret.op = "AppContext"
    /\ ret.fresh
    /\ ret.args.environment \notin available_environments(ret.self.config_manager)
    /\ IsEnvironmentNotFound(ret.exc, ret.args.environment)

\* C2: every context with an environment holds, as config, what its
\* configuration manager gives for that environment, and a successful
\* assignment leaves the assigned name as the environment.
C2_ConfigIsOfEnvironment ==
    /\ \A i \in DOMAIN objs :
           objs[i].environment # UnsetStr
               => objs[i].config = get(objs[i].config_manager, objs[i].environment)
    /\ (ret.op = "environment" /\ ~Raised(ret))
           => /\ objs[ret.target].environment = ret.args.environment
              /\ objs[ret.target].config =
                     get(objs[ret.target].config_manager, ret.args.environment)

\* C2 witness: a context was switched from one environment to another one
C2_Witness ==
    /\ ret.op = "environment"
    /\ ~Raised(ret)
    /\ ret.was # UnsetStr
    /\ ret.was # ret.args.environment
    /\ objs[ret.target].config # get(objs[ret.target].config_manager, ret.was)

\* C3: with logging enabled and one context, the root logger holds at most
\* one rotating file handler and at most one console handler.
C3_OneActiveSetOfHandlers ==
    (LOGGING_ENABLED /\ Len(objs) <= 1)
        => /\ CountKind("RotatingFileHandler") <= 1
           /\ CountKind("ColorStreamHandler") <= 1

\* C4: at most one AppContext instance exists, whatever constructors were
\* called.
C4_SingleInstance == Len(objs) <= 1

\* C5: with logging enabled, when AppContext(...) has initialised a context
\* and returned it, the root logger has its handlers and the context's log
\* attribute holds the logger setup_logging stored.
C5_LogSetAfterConstruction ==
    (ret.op = "AppContext" /\ ret.fresh /\ ~Raised(ret) /\ LOGGING_ENABLED)
        => /\ root.handlers # <<>>
           /\ ret.self.log = [logger |-> "context"]

\* C6: available_configurations does not raise, and every *.yaml file of the
\* directory is in exactly one of its two results: its manager in the
\* first when it loads and is not empty, its path in the second otherwise;
\* so the two lengths add up to the number of files.
C6_EveryFileInOneList ==
    ret.op = "available_configurations" =>
        LET dir == instance_folders(ret.args.instance_type, "",
                                    ret.args.system_folders).config
            candidates == Glob(disk, dir)
            configs == ret.value.configs
            failed == ret.value.failed
            Loads(f) == disk[f] # Corrupt /\ DOMAIN disk[f].envs # {}
            InConfigs(f) == {i \in DOMAIN configs : configs[i].name = Stem(f)}
            InFailed(f) == {j \in DOMAIN failed : failed[j] = f}
        IN  /\ ~Raised(ret)
            /\ Len(configs) + Len(failed) = Cardinality(candidates)
            /\ \A f \in candidates :
                   IF Loads(f)
                   THEN /\ Cardinality(InConfigs(f)) = 1
                        /\ InFailed(f) = {}
                        /\ \A i \in InConfigs(f) : configs[i].envs = disk[f].envs
                   ELSE /\ Cardinality(InFailed(f)) = 1
                        /\ InConfigs(f) = {}

\* C6 witness: a directory with one file that loads and one that does not
C6_Witness ==
    /\ ret.op = "available_configurations"
    /\ Len(ret.value.configs) = 1
    /\ Len(ret.value.failed) = 1

\* C7: from_external_config_file leaves the context as the primary
\* constructor would: name is the stem of the path, scope follows
\* system_folders, the folders are those of the stem with config_dir the
\* parent of the path, config_file is the path, the environment is active,
\* and the derived names can be read.
C7_SameStateAsPrimaryConstructor ==
    (ret.op = "from_external_config_file" /\ ~Raised(ret)) =>
        LET a == ret.args
            folders == instance_folders(a.instance_type, Stem(a.path), a.system_folders)
        IN  /\ ret.self.name = Stem(a.path)
            /\ ret.self.scope = (IF a.system_folders THEN "system" ELSE "user")
            /\ ret.self.log_dir = folders.log
            /\ ret.self.data_dir = folders.data
            /\ ret.self.config_dir = Parent(a.path)
            /\ ret.self.config_file = a.path
            /\ ret.self.environment = a.environment
            /\ ~Raised(docker_container_name(ret.self))
            /\ ~Raised(log_file(ret.self))

\* C8: config_exists does not raise and returns a boolean: FALSE when the
\* file is absent, otherwise whether the environment is in the file.
C8_ConfigExistsIsTotal ==
    ret.op = "config_exists" =>
        LET a == ret.args
            config_file == Append(instance_folders(a.instance_type, a.instance_name,
                                                   a.system_folders).config,
                                  a.instance_name \o ".yaml")
        IN  /\ ~Raised(ret)
            /\ ret.value \in BOOLEAN
            /\ ret.value = (/\ Exists(disk, config_file)
                            /\ a.environment \in DOMAIN disk[config_file].envs)

\* C9: a constructor whose configuration file is absent fails at the
\* config_file assignment with the "config ... not found" assertion, with
\* no manager loaded, no environment active and no instance registered or
\* returned; when the file exists the path is stored and, the file being
\* parsable, the manager loaded from it.
C9_ConfigFileMustExist ==
    Constructing =>
        LET path == ConstructedConfigFile
        IN  IF ~Exists(disk, path)
            THEN /\ IsConfigNotFound(ret.exc, path)
                 /\ ret.self.config_file = UnsetPath
                 /\ ret.self.config_manager = UnsetObj
                 /\ ret.self.environment = UnsetStr
                 /\ ret.self.config = UnsetObj
                 /\ ret.target = 0
                 /\ ret.op = "AppContext" => instances = 0
            ELSE /\ ret.self.config_file = path
                 /\ disk[path] # Corrupt
                        => ret.self.config_manager = from_file(disk, path).value

\* C9 witness: AppContext(...) was refused for an absent file and the class
\* has no instance
C9_Witness ==
    /\ ret.op = "AppContext"
    /\ ret.fresh
    /\ ~Exists(disk, ConstructedConfigFile)
    /\ Raised(ret)
    /\ instances = 0

\* C10: an assignment of `environment` that fails because the name is not
\* available changes no context, nor the root logger, nor the directories.
C10_FailedAssignmentChangesNothing ==
    [][(ret'.op = "environment" /\ ret'.exc.type = "AssertionError"
            /\ ret'.was # UnsetStr)
        => (objs' = objs /\ root' = root /\ dirs' = dirs /\ instances' = instances)]_vars

\* C10 witness: a context with an active environment and a logger refused
\* an environment that is not available
C10_Witness ==
    /\ ret.op = "environment"
    /\ ret.exc.type = "AssertionError"
    /\ ret.was # UnsetStr
    /\ LOGGING_ENABLED
    /\ root.handlers # <<>>
    /\ objs[ret.target].environment = ret.was

====
